---- MODULE Spec2Model ----
(***************************************************************************)
(* Model of the faith-study planner (src/app.py): the cohort normaliser    *)
(* and group matcher (process_csv_data), the upload handler (upload_file)  *)
(* and the move validator (validate_move).                                 *)
(*                                                                         *)
(* A Python str is a sequence of one-character strings.  A spreadsheet     *)
(* cell is a record [isna, s]: pandas reads an empty cell as NaN (a float) *)
(* and any other cell as text.  Person ids f"{first}_{last}_{ordinal}" are *)
(* modelled by their ordinal, group ids f"G{counter}" by their counter.    *)
(***************************************************************************)
EXTENDS Integers, Sequences, FiniteSets, TLC

\* ------------------------------------------------------------ bounds

\* rows of an uploaded sheet
MaxRows == 5
\* availability columns of an uploaded sheet
NumSlots == 2
\* rows of an uploaded sheet that holds rows of every kind
MaxMixedRows == 3
\* rows of a sheet whose groups are then edited by moves
MaxMoveRows == 3
\* moves applied to one snapshot
MaxMoves == 2

\* ------------------------------------------------------------ Python str

UPPER == <<"A","B","C","D","E","F","G","H","I","J","K","L","M",
           "N","O","P","Q","R","S","T","U","V","W","X","Y","Z">>
LOWER == <<"a","b","c","d","e","f","g","h","i","j","k","l","m",
           "n","o","p","q","r","s","t","u","v","w","x","y","z">>
WHITESPACE == {" ", "\t", "\n", "\r"}

\* the case mappings of the letters, as tables
TO_LOWER == [c \in {UPPER[i] : i \in 1..Len(UPPER)} |->
               LOWER[CHOOSE i \in 1..Len(UPPER) : UPPER[i] = c]]
TO_UPPER == [c \in {LOWER[i] : i \in 1..Len(LOWER)} |->
               UPPER[CHOOSE i \in 1..Len(LOWER) : LOWER[i] = c]]

\* one character of str.lower()
lower_char(c) == IF c \in DOMAIN TO_LOWER THEN TO_LOWER[c] ELSE c

\* one character of str.upper()
upper_char(c) == IF c \in DOMAIN TO_UPPER THEN TO_UPPER[c] ELSE c

\* str.lower()
lower(s) == [i \in 1..Len(s) |-> lower_char(s[i])]

\* str.capitalize(): first character upper-cased, the rest lower-cased
capitalize(s) == [i \in 1..Len(s) |-> IF i = 1 THEN upper_char(s[i]) ELSE lower_char(s[i])]

\* str.strip(): leading and trailing whitespace removed
strip(s) ==
  LET keep == {i \in 1..Len(s) : s[i] \notin WHITESPACE}
  IN  IF keep = {} THEN <<>>
      ELSE LET lo == CHOOSE i \in keep : \A j \in keep : i <= j
               hi == CHOOSE i \in keep : \A j \in keep : j <= i
           IN  SubSeq(s, lo, hi)

\* str.split(","): the pieces between the commas, empty pieces included
RECURSIVE split(_)
split(s) ==
  LET commas == {i \in 1..Len(s) : s[i] = ","}
  IN  IF commas = {} THEN <<s>>
      ELSE LET k == CHOOSE i \in commas : \A j \in commas : i <= j
           IN  <<SubSeq(s, 1, k - 1)>> \o split(SubSeq(s, k + 1, Len(s)))

\* sub in s
contains(s, sub) ==
  \E i \in 1..(Len(s) - Len(sub) + 1) : \A j \in 1..Len(sub) : s[i + j - 1] = sub[j]

\* x in list
in_list(x, list) == \E i \in 1..Len(list) : list[i] = x

\* ------------------------------------------------------------ cells

NaN == [isna |-> TRUE, s |-> <<>>]
Text(s) == [isna |-> FALSE, s |-> s]

\* pd.isna(cell)
isna(cell) == cell.isna

\* str(cell): a NaN prints as "nan"
str(cell) == IF cell.isna THEN <<"n","a","n">> ELSE cell.s

\* Python's None, where a str is expected; no str equals it
None == <<"None">>
\* Python's None, where a person id is expected; no ordinal equals it
NoLeader == -1

\* ------------------------------------------------------------ constants

FAITH_STUDIES ==
  << <<"d","i","s","c","o","v","e","r","y">>,
     <<"s","o","u","r","c","e">>,
     <<"g","r","o","w","t","h">>,
     <<"t","r","u","s","t">>,
     <<"c","o","m","m","i","s","s","i","o","n">> >>

DAY_NAMES ==
  { <<"m","o","n","d","a","y">>, <<"t","u","e","s","d","a","y">>,
    <<"w","e","d","n","e","s","d","a","y">>, <<"t","h","u","r","s","d","a","y">>,
    <<"f","r","i","d","a","y">>, <<"s","a","t","u","r","d","a","y">>,
    <<"s","u","n","d","a","y">> }

YES == <<"y","e","s">>

\* [c.strip().lower() for c in str(x).split(",") if c.strip()]
lower_items(s) ==
  LET parts == SelectSeq(split(s), LAMBDA c : strip(c) # <<>>)
  IN  [i \in 1..Len(parts) |-> lower(strip(parts[i]))]

\* get_next_faith_study(completed)
get_next_faith_study(completed) ==
  IF isna(completed) THEN FAITH_STUDIES[1]
  ELSE LET completed_lower == lower_items(str(completed))
           open == {i \in 1..Len(FAITH_STUDIES) : ~in_list(FAITH_STUDIES[i], completed_lower)}
       IN  IF open = {} THEN None
           ELSE FAITH_STUDIES[CHOOSE i \in open : \A j \in open : i <= j]

\* has_led(study, led_str)
has_led(study, led_str) ==
  IF isna(led_str) THEN FALSE
  ELSE in_list(study, lower_items(str(led_str)))

\* ------------------------------------------------------------ availability

\* the availability columns of the sheet, named by their rank in label order
AvailabilityCols == 1..NumSlots

\* sorted(list(S))
RECURSIVE sorted(_)
sorted(S) ==
  IF S = {} THEN <<>>
  ELSE LET m == CHOOSE x \in S : \A y \in S : x <= y
       IN  <<m>> \o sorted(S \ {m})

\* the slots of one availability dict whose value names a weekday
available_slots(avail) ==
  {slot \in DOMAIN avail :
     LET value_str == strip(avail[slot])
         value_low == lower(value_str)
     IN  value_str # <<>> /\ \E day \in DAY_NAMES : contains(value_low, day)}

\* find_common_slots with the slots of any person, not of every person
find_common_slots_any(avail_dicts) ==
  IF avail_dicts = <<>> THEN <<>>
  ELSE sorted({slot \in AvailabilityCols :
                 \E i \in 1..Len(avail_dicts) : slot \in available_slots(avail_dicts[i])})

\* find_common_slots(avail_dicts)
find_common_slots(avail_dicts) ==
  IF avail_dicts = <<>> THEN <<>>
  ELSE sorted({slot \in available_slots(avail_dicts[1]) :
                 \A i \in 1..Len(avail_dicts) : slot \in available_slots(avail_dicts[i])})

\* ------------------------------------------------------------ normaliser

\* one person of process_csv_data, from the row with ordinal len(people)
person_of(row, ordinal) ==
  [ id           |-> ordinal,
    gender       |-> lower(strip(row.gender.s)),
    next_study   |-> get_next_faith_study(row.completed),
    willing_lead |-> (lower(strip(str(row.willing))) = YES),
    already_led  |-> row.led,
    avail        |-> [col \in AvailabilityCols |-> strip(str(row.avail[col]))] ]

\* row.get("Please indicate your gender.", "").strip() on a NaN cell:
\* a float has no strip(), Python raises AttributeError
row_raises(row) == isna(row.gender)

\* the people list, one person per row
people_of(df) == [i \in 1..Len(df) |-> person_of(df[i], i - 1)]

\* the filter of the bucketing loop: a next study and a non-blank gender
eligible(p) == p.next_study # None /\ p.gender # <<>> /\ strip(p.gender) # <<>>

\* the key of the bucket a person is filed under
bucket_key(p) == <<p.gender, p.next_study>>

\* the keys of grouped, in insertion order
RECURSIVE bucket_keys(_)
bucket_keys(people) ==
  IF people = <<>> THEN <<>>
  ELSE LET front == bucket_keys(SubSeq(people, 1, Len(people) - 1))
           p     == people[Len(people)]
       IN  IF eligible(p) /\ ~in_list(bucket_key(p), front)
           THEN Append(front, bucket_key(p)) ELSE front

\* grouped[key]: the eligible people of one bucket, in row order
bucket_members(people, key) ==
  SelectSeq(people, LAMBDA p : eligible(p) /\ bucket_key(p) = key)

\* ------------------------------------------------------------ matcher

\* itertools.combinations(range(lo, n + 1), k), in its lexicographic order
RECURSIVE combinations(_, _, _)
combinations(lo, n, k) ==
  IF k = 0 THEN << <<>> >>
  ELSE IF n - lo + 1 < k THEN <<>>
  ELSE LET with == combinations(lo + 1, n, k - 1)
       IN  [i \in 1..Len(with) |-> <<lo>> \o with[i]] \o combinations(lo + 1, n, k)

\* range(5, 1, -1)
SIZES == <<5, 4, 3, 2>>

\* leader_of without the has_led test
leader_of_willing(study, combo) ==
  LET can == {i \in 1..Len(combo) : combo[i].willing_lead}
  IN  IF can = {} THEN NoLeader
      ELSE combo[CHOOSE i \in can : \A j \in can : i <= j].id

\* the leader of an accepted combination
leader_of(study, combo) ==
  LET can == {i \in 1..Len(combo) :
                combo[i].willing_lead /\ ~has_led(study, combo[i].already_led)}
  IN  IF can = {} THEN NoLeader
      ELSE combo[CHOOSE i \in can : \A j \in can : i <= j].id

\* group_data
group_data(counter, gender, study, combo, common) ==
  [ id          |-> counter,
    faith_study |-> capitalize(study),
    gender      |-> capitalize(gender),
    leader      |-> leader_of(study, combo),
    members     |-> [i \in 1..Len(combo) |-> combo[i].id],
    common_availabilities |-> common ]

\* the combinations of one size that share a slot, in enumeration order
valid_combos(members, size) ==
  LET all == combinations(1, Len(members), size)
  IN  SelectSeq(all, LAMBDA c :
        find_common_slots([i \in 1..Len(c) |-> members[c[i]].avail]) # <<>>)

\* the body of "for size in range(5, 1, -1)" for the sizes from position k on
RECURSIVE size_loop(_, _, _, _)
size_loop(key, members, k, results) ==
  IF k > Len(SIZES) THEN results
  ELSE LET valid == valid_combos(members, SIZES[k])
       IN  IF valid = <<>> THEN size_loop(key, members, k + 1, results)
           ELSE LET combo  == [i \in 1..Len(valid[1]) |-> members[valid[1][i]]]
                    common == find_common_slots([i \in 1..Len(combo) |-> combo[i].avail])
                    g      == group_data(Len(results) + 1, key[1], key[2], combo, common)
                IN  size_loop(key, members, k + 1, Append(results, g))

\* "for (gender, study), members in grouped.items()" from bucket b on
RECURSIVE bucket_loop(_, _, _, _)
bucket_loop(people, keys, b, results) ==
  IF b > Len(keys) THEN results
  ELSE bucket_loop(people, keys, b + 1,
                   size_loop(keys[b], bucket_members(people, keys[b]), 1, results))

\* process_csv_data(df): raised, or (results, people)
process_csv_data(df) ==
  IF \E i \in 1..Len(df) : row_raises(df[i])
  THEN [raised |-> TRUE, results |-> <<>>, people |-> <<>>]
  ELSE LET people == people_of(df)
       IN  [raised  |-> FALSE,
            results |-> bucket_loop(people, bucket_keys(people), 1, <<>>),
            people  |-> people]

\* ------------------------------------------------------------ move validator

\* next((x for x in items if x['id'] == id), None)
NotFound == [id |-> NoLeader]
find_by_id(items, id) ==
  LET hits == {i \in 1..Len(items) : items[i].id = id}
  IN  IF hits = {} THEN NotFound
      ELSE items[CHOOSE i \in hits : \A j \in hits : i <= j]

\* check 1: gender or faith study differs from the target group's
mismatch(person, to_group) ==
  \/ person.gender # lower(to_group.gender)
  \/ person.next_study # lower(to_group.faith_study)

\* target_full with the bound off by one
target_full_strict(to_group) == Len(to_group.members) > 5

\* check 2a: the target group is full
target_full(to_group) == Len(to_group.members) >= 5

\* check 2b: the source group would become too small
source_too_small(from_group) == Len(from_group.members) <= 2

\* move_common_slots that trusts the target group's stored list
move_common_slots_stored(person, to_group, people) ==
  sorted({slot \in available_slots(person.avail) :
            in_list(slot, to_group.common_availabilities)})

\* check 3: the slots shared by the target group's members and the person
move_common_slots(person, to_group, people) ==
  LET to_group_members ==
        Append(SelectSeq(people, LAMBDA p : in_list(p.id, to_group.members)), person)
  IN  find_common_slots([i \in 1..Len(to_group_members) |-> to_group_members[i].avail])

Invalid(reason) == [valid |-> FALSE, reason |-> reason, common_slots |-> <<>>]
Valid(common_slots) == [valid |-> TRUE, reason |-> "", common_slots |-> common_slots]

\* validate_move(), on the request body data
validate_move(data) ==
  LET person     == find_by_id(data.people, data.person_id)
      from_group == find_by_id(data.groups, data.from_group_id)
      to_group   == find_by_id(data.groups, data.to_group_id)
  IN  IF person = NotFound \/ from_group = NotFound \/ to_group = NotFound
        THEN Invalid("Person or group not found")
      ELSE IF mismatch(person, to_group)
        THEN Invalid("Gender or faith study mismatch")
      ELSE IF target_full(to_group)
        THEN Invalid("Target group is full (max 5 people)")
      ELSE IF source_too_small(from_group)
        THEN Invalid("Source group would be too small (min 2 people)")
      ELSE LET common_slots == move_common_slots(person, to_group, data.people)
           IN  IF common_slots = <<>>
                 THEN Invalid("No common availability slots")
               ELSE Valid(common_slots)

\* the caller's edit after an accepted move: the person leaves the source
\* group's members and is appended to the target group's members
apply_move(groups, person_id, from_group_id, to_group_id) ==
  LET removed == [i \in 1..Len(groups) |->
                    IF groups[i].id = from_group_id
                    THEN [groups[i] EXCEPT !.members = SelectSeq(@, LAMBDA m : m # person_id)]
                    ELSE groups[i]]
  IN  [i \in 1..Len(groups) |->
         IF removed[i].id = to_group_id
         THEN [removed[i] EXCEPT !.members = Append(@, person_id)]
         ELSE removed[i]]

\* ------------------------------------------------------------ upload handler

endswith(s, suffix) ==
  Len(s) >= Len(suffix) /\ SubSeq(s, Len(s) - Len(suffix) + 1, Len(s)) = suffix

CSV  == <<".","c","s","v">>
XLSX == <<".","x","l","s","x">>
XLS  == <<".","x","l","s">>

\* request.files without a 'file' key
NoFile == None

Error(status, error) ==
  [status |-> status, error |-> error, success |-> FALSE,
   groups |-> <<>>, people |-> <<>>, total_people |-> 0, total_groups |-> 0]

\* upload_file(), on the posted file, the columns of its table and its rows
upload_file(file, has_columns, df) ==
  IF file = NoFile THEN Error(400, "No file uploaded")
  ELSE IF file = <<>> THEN Error(400, "No file selected")
  ELSE IF ~(endswith(file, CSV) \/ endswith(file, XLSX) \/ endswith(file, XLS))
    THEN Error(400, "Unsupported file format. Please upload CSV or Excel files.")
  ELSE IF ~has_columns THEN Error(400, "Missing required columns")
  ELSE LET out == process_csv_data(df)
       IN  IF out.raised THEN Error(500, "Error processing file")
           ELSE IF out.people = <<>> THEN Error(400, "No valid people found in the data")
           ELSE [status |-> 200, error |-> "", success |-> TRUE,
                 groups |-> out.results, people |-> out.people,
                 total_people |-> Len(out.people), total_groups |-> Len(out.results)]

\* ------------------------------------------------------------ inputs

\* one row of the sheet; free gives the cells of the leading availability
\* columns, the remaining ones are empty
Row(gender, completed, willing, led, free) ==
  [ gender |-> gender, completed |-> completed, willing |-> willing, led |-> led,
    avail  |-> [col \in AvailabilityCols |-> IF col <= Len(free) THEN free[col] ELSE NaN] ]

Male     == <<"M","a","l","e">>
MalePad  == <<" ","m","a","l","e"," ">>
MaleCaps == <<"M","A","L","E">>
Female   == <<"F","e","m","a","l","e">>
Blank    == <<" ">>
Discovery == <<"D","i","s","c","o","v","e","r","y">>
LedSourceGrowth == <<"S","o","u","r","c","e",","," ","g","r","o","w","t","h">>
LedSourceDiscovery == <<" ","S","O","U","R","C","E"," ",",","d","i","s","c","o","v","e","r","y">>
AllFive ==
  <<"D","i","s","c","o","v","e","r","y",","," ","S","o","u","r","c","e",",",
    "G","R","O","W","T","H",",","t","r","u","s","t"," ",",",
    " ","C","o","m","m","i","s","s","i","o","n",",">>
Yes     == <<"Y","e","s">>
YesPad  == <<" ","Y","E","S"," ">>
No      == <<"N","o">>
Mondays == <<"M","o","n","d","a","y","s">>
Fridays == <<"F","r","i","d","a","y","s">>
Sundays == <<"S","u","n","d","a","y","s">>
MonWed  == <<"M","o","n","d","a","y","s",","," ","W","e","d","n","e","s","d","a","y","s">>
tuesdays == <<" ","t","u","e","s","d","a","y","s">>
Maybe   == <<"M","a","y","b","e">>

\* male, discovery next, willing but has led discovery, free on slot 1
RowA == Row(Text(Male), NaN, Text(Yes), Text(Discovery), <<Text(Mondays), Text(Maybe)>>)
\* male, discovery next, not willing, free on slot 2
RowB == Row(Text(MalePad), NaN, Text(No), NaN, <<NaN, Text(Fridays)>>)
\* male, discovery next, willing and has not led discovery, free on both slots
RowC == Row(Text(MaleCaps), Text(Blank), Text(YesPad), Text(LedSourceGrowth),
            <<Text(MonWed), Text(tuesdays)>>)
\* female, source next, willing but has led source, free on both slots
RowD == Row(Text(Female), Text(Discovery), Text(Yes), Text(LedSourceDiscovery),
            <<Text(Sundays), Text(Fridays)>>)
\* gender cell of blanks only
RowE == Row(Text(Blank), NaN, Text(Yes), NaN, <<Text(Mondays), NaN>>)
\* all five studies completed
RowF == Row(Text(Male), Text(AllFive), Text(Yes), NaN, <<Text(Mondays), NaN>>)
\* gender cell empty
RowG == Row(NaN, NaN, Text(Yes), NaN, <<Text(Mondays), NaN>>)

\* the rows of every kind
Rows == {RowA, RowB, RowC, RowD, RowE, RowF, RowG}
\* the rows of people who pass the eligibility filter
GroupRows == {RowA, RowB, RowC, RowD}
\* eligible rows of two buckets, two of them with no slot in common
ValidateRows == {RowA, RowB, RowD}

\* the sheets of at most n rows drawn from rows
Sheets(rows, n) == UNION {[1..k -> rows] : k \in 0..n}

RosterCsv  == <<"r",".","c","s","v">>
RosterXlsx == <<"r",".","x","l","s","x">>
RosterXls  == <<"r",".","x","l","s">>
RosterTxt  == <<"r",".","t","x","t">>

\* ------------------------------------------------------------ state

VARIABLES
  file,         \* the posted file's name, or NoFile
  has_columns,  \* whether the table has every required column
  df,           \* the rows of the table
  pc,           \* "upload": posted; "ready": the client holds a snapshot;
                \* "validated": a verdict awaits the client; "error"
  response,     \* the response of upload_file
  people,       \* the client's snapshot: people
  groups,       \* the client's snapshot: groups, edited by moves
  request,      \* the body of the validate_move request awaiting its verdict
  verdict,      \* the response of validate_move to it
  moves         \* moves applied so far

vars == <<file, has_columns, df, pc, response, people, groups, request, verdict, moves>>

NoResponse == Error(0, "")
NoRequest == [person_id |-> NoLeader, from_group_id |-> 0, to_group_id |-> 0,
              groups |-> <<>>, people |-> <<>>]
NoVerdict == Invalid("")

Fresh ==
  /\ pc = "upload"
  /\ response = NoResponse
  /\ people = <<>>
  /\ groups = <<>>
  /\ request = NoRequest
  /\ verdict = NoVerdict
  /\ moves = 0

Init ==
  /\ \/ /\ file = RosterCsv
        /\ has_columns = TRUE
        /\ df \in Sheets(GroupRows, MaxRows) \cup Sheets(Rows, MaxMixedRows)
     \/ /\ file \in {NoFile, <<>>, RosterXlsx, RosterXls, RosterTxt, RosterCsv}
        /\ has_columns \in BOOLEAN
        /\ df \in Sheets(Rows, 1)
  /\ Fresh

InitValidate ==
  /\ file = RosterCsv
  /\ has_columns = TRUE
  /\ df \in Sheets(ValidateRows, MaxRows)
  /\ Fresh

InitMove ==
  /\ file = RosterCsv
  /\ has_columns = TRUE
  /\ df \in Sheets(GroupRows, MaxMoveRows)
  /\ Fresh

\* the handler of POST /upload answers; on success the client keeps the snapshot
UploadFile ==
  /\ pc = "upload"
  /\ response' = upload_file(file, has_columns, df)
  /\ pc' = IF response'.success THEN "ready" ELSE "error"
  /\ people' = response'.people
  /\ groups' = response'.groups
  /\ UNCHANGED <<file, has_columns, df, request, verdict, moves>>

\* the groups as the client may send them: each stored common_availabilities
\* as held, emptied, or naming every slot
sent_groups(held, stored) ==
  [i \in 1..Len(held) |->
     IF stored = "as held" THEN held[i]
     ELSE [held[i] EXCEPT !.common_availabilities =
             IF stored = "emptied" THEN <<>> ELSE sorted(AvailabilityCols)]]

\* the client posts a move of its snapshot to /validate_move and is answered
ValidateMove ==
  /\ pc = "ready"
  /\ \E person_id \in 0..Len(people), from_group_id \in 0..Len(groups),
        to_group_id \in 0..Len(groups), stored \in {"as held", "emptied", "every slot"} :
        /\ request' = [person_id |-> person_id, from_group_id |-> from_group_id,
                       to_group_id |-> to_group_id,
                       groups |-> sent_groups(groups, stored), people |-> people]
        /\ verdict' = validate_move(request')
  /\ pc' = "validated"
  /\ UNCHANGED <<file, has_columns, df, response, people, groups, moves>>

\* the client applies the move the validator accepted
ApplyMove ==
  /\ pc = "validated"
  /\ verdict.valid
  /\ moves < MaxMoves
  /\ groups' = apply_move(groups, request.person_id, request.from_group_id,
                           request.to_group_id)
  /\ moves' = moves + 1
  /\ request' = NoRequest
  /\ verdict' = NoVerdict
  /\ pc' = "ready"
  /\ UNCHANGED <<file, has_columns, df, response, people>>

\* the client drops the verdict and leaves its snapshot as it is
Dismiss ==
  /\ pc = "validated"
  /\ request' = NoRequest
  /\ verdict' = NoVerdict
  /\ pc' = "ready"
  /\ UNCHANGED <<file, has_columns, df, response, people, groups, moves>>

Next == UploadFile

NextValidate == UploadFile \/ ValidateMove \/ Dismiss

NextMove == UploadFile \/ ValidateMove \/ ApplyMove \/ Dismiss

Spec == Init /\ [][Next]_vars

ValidateSpec == InitValidate /\ [][NextValidate]_vars

MoveSpec == InitMove /\ [][NextMove]_vars

\* ------------------------------------------------------------ properties

\* the person of the snapshot with this id
PersonById(id) == people[id + 1]

\* the ids held by a members list
MemberSet(g) == {g.members[i] : i \in 1..Len(g.members)}

\* a strictly increasing list of exactly the elements of S
IsSortedListOf(list, S) ==
  /\ {list[i] : i \in 1..Len(list)} = S
  /\ \A i \in 1..Len(list) : \A j \in 1..Len(list) : i < j => list[i] < list[j]

\* the slots on which every person of ids is free
SharedSlots(ids) ==
  {slot \in AvailabilityCols : \A id \in ids : slot \in available_slots(PersonById(id).avail)}

\* the bucket of a group: the one all its members are filed under
GroupsOfBucket(key) ==
  {i \in 1..Len(groups) : \A id \in MemberSet(groups[i]) : bucket_key(PersonById(id)) = key}

\* the buckets of the snapshot
Buckets == {bucket_key(people[i]) : i \in {j \in 1..Len(people) : eligible(people[j])}}

\* the ids of a bucket's people
BucketIds(key) ==
  {people[i].id : i \in {j \in 1..Len(people) : eligible(people[j]) /\ bucket_key(people[j]) = key}}

\* C1: process_csv_data emits at most one group per (gender, next_study)
\* bucket; a bucket of N >= 5 eligible people who all share a slot yields
\* exactly one group, of size 5.
C1_OneGroupPerBucket ==
  pc = "ready" =>
    \A key \in Buckets :
      /\ Cardinality(GroupsOfBucket(key)) <= 1
      /\ (Cardinality(BucketIds(key)) >= 5 /\ SharedSlots(BucketIds(key)) # {})
           => \E i \in 1..Len(groups) :
                GroupsOfBucket(key) = {i} /\ Len(groups[i].members) = 5

\* C2: every emitted group has between 2 and 5 members, a non-empty
\* common_availabilities list equal to the slots on which all its members are
\* free, and members of the gender and next study its lower-cased labels name.
C2_GroupsWellFormed ==
  pc = "ready" =>
    \A i \in 1..Len(groups) :
      LET g == groups[i] IN
      /\ Len(g.members) >= 2 /\ Len(g.members) <= 5
      /\ g.common_availabilities # <<>>
      /\ IsSortedListOf(g.common_availabilities, SharedSlots(MemberSet(g)))
      /\ \A id \in MemberSet(g) :
            /\ PersonById(id).gender = lower(g.gender)
            /\ PersonById(id).next_study = lower(g.faith_study)

\* C2 witness: a run that emitted a group of five whose members differ in
\* their free slots, and a group of two
C2_Witness ==
  /\ pc = "ready"
  /\ \E i \in 1..Len(groups) : \E j \in 1..Len(groups) :
        /\ Len(groups[i].members) = 5
        /\ Len(groups[i].common_availabilities) = 1
        /\ \E id \in MemberSet(groups[i]) :
              Cardinality(available_slots(PersonById(id).avail)) = 2
        /\ Len(groups[j].members) = 2

\* the positions of a group's members who are willing to lead and have not
\* led the group's study
Qualifying(g) ==
  {k \in 1..Len(g.members) :
     /\ PersonById(g.members[k]).willing_lead
     /\ ~has_led(lower(g.faith_study), PersonById(g.members[k]).already_led)}

\* C4: the leader of an emitted group is the first member, in combination
\* order, who is willing to lead and has not led the group's study, and is
\* none exactly when no member qualifies.
C4_LeaderIsFirstQualifying ==
  pc = "ready" =>
    \A i \in 1..Len(groups) :
      LET g == groups[i] IN
      /\ (g.leader = NoLeader) <=> (Qualifying(g) = {})
      /\ g.leader # NoLeader =>
            \E k \in Qualifying(g) :
              /\ g.leader = g.members[k]
              /\ \A j \in Qualifying(g) : k <= j

\* C4 witness: a group led by a member who is not its first, and a group
\* with willing members but no leader
C4_Witness ==
  /\ pc = "ready"
  /\ \E i \in 1..Len(groups) :
        groups[i].leader # NoLeader /\ groups[i].leader # groups[i].members[1]
  /\ \E i \in 1..Len(groups) :
        /\ groups[i].leader = NoLeader
        /\ \E id \in MemberSet(groups[i]) : PersonById(id).willing_lead

\* the upload reached process_csv_data
Processed == pc # "upload" /\ response.status \notin {0} /\ has_columns
             /\ (endswith(file, CSV) \/ endswith(file, XLSX) \/ endswith(file, XLS))

\* the rows whose gender cell is empty or blank
BlankGenderRows == {i \in 1..Len(df) : isna(df[i].gender) \/ strip(df[i].gender.s) = <<>>}

\* C6: a row with a blank or missing field never aborts the batch: one
\* person per row is created without raising, a row whose gender cell is
\* blank is excluded from grouping, and the other rows are still grouped.
C6_BlankRowNeverAborts ==
  Processed =>
    /\ response.status # 500
    /\ Len(df) > 0 => Len(response.people) = Len(df)
    /\ \A i \in BlankGenderRows : \A j \in 1..Len(response.groups) :
          ~in_list(i - 1, response.groups[j].members)

\* C7: when the sheet has rows but no person passes the eligibility filter,
\* upload_file reports the "no valid people" error; a success response with
\* zero groups occurs only when at least one person is eligible.
C7_NoEligibleIsAnError ==
  /\ (Processed /\ Len(df) > 0 /\ BlankGenderRows = {}
        /\ \A i \in 1..Len(df) : ~eligible(person_of(df[i], i - 1)))
       => (~response.success /\ response.error = "No valid people found in the data")
  /\ (response.success /\ response.total_groups = 0)
       => \E i \in 1..Len(response.people) : eligible(response.people[i])

\* the positions, in a bucket's row order, of the sets of the given size
\* that share a slot
SharingSets(ids, size) ==
  {S \in SUBSET ids : Cardinality(S) = size /\ SharedSlots(S) # {}}

\* S comes before T in the lexicographic order of combinations
LexBefore(S, T) ==
  LET diff == (S \ T) \cup (T \ S)
  IN  diff # {} /\ (CHOOSE x \in diff : \A y \in diff : x <= y) \in S

\* the sizes, 2 to 5, at which some combination of the bucket shares a slot
FeasibleSizes(ids) == {size \in 2..5 : SharingSets(ids, size) # {}}

\* C8: for each bucket the group emitted is the first combination, in
\* lexicographic order over the bucket's row order, of the largest size in 5
\* down to 2 at which some combination shares a slot; a bucket with no such
\* combination yields zero groups and no error.
C8_FirstOfLargestSize ==
  pc = "ready" =>
    \A key \in Buckets :
      LET ids  == BucketIds(key)
          mine == GroupsOfBucket(key)
      IN  IF FeasibleSizes(ids) = {} THEN mine = {}
          ELSE LET size == CHOOSE s \in FeasibleSizes(ids) : \A u \in FeasibleSizes(ids) : u <= s
               IN  \E i \in 1..Len(groups) :
                     /\ mine = {i}
                     /\ MemberSet(groups[i]) \in SharingSets(ids, size)
                     /\ IsSortedListOf(groups[i].members, MemberSet(groups[i]))
                     /\ \A T \in SharingSets(ids, size) :
                           T # MemberSet(groups[i]) => LexBefore(MemberSet(groups[i]), T)

\* C10: the groups emitted by one run are pairwise disjoint, and no id
\* appears twice in one group.
C10_GroupsDisjoint ==
  pc = "ready" =>
    /\ \A i \in 1..Len(groups) : \A j \in 1..Len(groups) :
          i # j => MemberSet(groups[i]) \cap MemberSet(groups[j]) = {}
    /\ \A i \in 1..Len(groups) : Cardinality(MemberSet(groups[i])) = Len(groups[i].members)

\* the reasons of the five checks, in their order
REASONS ==
  <<"Person or group not found",
    "Gender or faith study mismatch",
    "Target group is full (max 5 people)",
    "Source group would be too small (min 2 people)",
    "No common availability slots">>

\* the first entry of items with the id
FirstWithId(items, id) ==
  items[CHOOSE i \in 1..Len(items) :
          items[i].id = id /\ \A j \in 1..(i - 1) : items[j].id # id]

HasId(items, id) == \E i \in 1..Len(items) : items[i].id = id

\* the slots on which the person and every listed person among ids are free
FreeForAll(person, ids, listed) ==
  {slot \in AvailabilityCols :
     /\ slot \in available_slots(person.avail)
     /\ \A i \in 1..Len(listed) :
           listed[i].id \in ids => slot \in available_slots(listed[i].avail)}

\* the checks 2 to 5 that fail for a request whose person and groups exist
FailedChecks(d) ==
  LET person     == FirstWithId(d.people, d.person_id)
      from_group == FirstWithId(d.groups, d.from_group_id)
      to_group   == FirstWithId(d.groups, d.to_group_id)
  IN  {k \in 2..5 :
         \/ k = 2 /\ (person.gender # lower(to_group.gender)
                       \/ person.next_study # lower(to_group.faith_study))
         \/ k = 3 /\ Len(to_group.members) >= 5
         \/ k = 4 /\ Len(from_group.members) <= 2
         \/ k = 5 /\ FreeForAll(person, MemberSet(to_group), d.people) = {}}

\* C3: validate_move returns the outcome of the five checks applied in order
\* with short-circuit, and is valid, with the recomputed common slot list,
\* exactly when none of the five fails.
C3_VerdictIsFirstFailedCheck ==
  pc = "validated" =>
    LET d == request IN
    IF ~(HasId(d.people, d.person_id) /\ HasId(d.groups, d.from_group_id)
          /\ HasId(d.groups, d.to_group_id))
    THEN ~verdict.valid /\ verdict.reason = REASONS[1]
    ELSE LET failed == FailedChecks(d) IN
         /\ verdict.valid <=> failed = {}
         /\ failed # {} =>
               verdict.reason = REASONS[CHOOSE k \in failed : \A j \in failed : k <= j]
         /\ failed = {} =>
               IsSortedListOf(verdict.common_slots,
                              FreeForAll(FirstWithId(d.people, d.person_id),
                                         MemberSet(FirstWithId(d.groups, d.to_group_id)),
                                         d.people))

\* C3 witness: a move into a group of five out of a group of two, which
\* fails two checks and is rejected for the earlier one, as full
C3_Witness ==
  /\ pc = "validated"
  /\ HasId(request.people, request.person_id)
  /\ HasId(request.groups, request.from_group_id)
  /\ HasId(request.groups, request.to_group_id)
  /\ FailedChecks(request) = {3, 4}
  /\ verdict.reason = REASONS[3]

\* C5: the response of validate_move does not depend on any group's stored
\* common_availabilities: requests that differ only in them get the same
\* valid flag, reason and common_slots.
C5_StoredSlotsIgnored ==
  pc = "validated" =>
    \A stored \in {"as held", "emptied", "every slot"} :
      validate_move([request EXCEPT !.groups = sent_groups(groups, stored)]) = verdict

\* C5 witness: an accepted move whose request carried a stored list for the
\* target group that differs from the recomputed one
C5_Witness ==
  /\ pc = "validated"
  /\ verdict.valid
  /\ FirstWithId(request.groups, request.to_group_id).common_availabilities
       # verdict.common_slots
  /\ FirstWithId(groups, request.to_group_id).common_availabilities
       # FirstWithId(request.groups, request.to_group_id).common_availabilities

\* C9: after any sequence of accepted and applied moves every group still
\* has between 2 and 5 members, members that match its gender and faith
\* study, and at least one slot on which all its members are free.
C9_MovesKeepGroupsValid ==
  pc \in {"ready", "validated"} =>
    \A i \in 1..Len(groups) :
      LET g == groups[i] IN
      /\ Len(g.members) >= 2 /\ Len(g.members) <= 5
      /\ \A id \in MemberSet(g) :
            /\ PersonById(id).gender = lower(g.gender)
            /\ PersonById(id).next_study = lower(g.faith_study)
      /\ SharedSlots(MemberSet(g)) # {}

====
